---- MODULE Spec2Model ----
(***************************************************************************)
(* Model of the typed extractor (extract_features) and the structural      *)
(* differ (compare_features) of dsvc/cad_parser_xml.py, driven as main.py  *)
(* drives them: extract the blank document, extract the component          *)
(* document, compare the two feature collections.                          *)
(*                                                                         *)
(* Python strings are sequences of one-character strings.  Python floats   *)
(* are records [cls, neg, mant, exp] standing for (-1)^neg * mant * 10^exp *)
(* with mant not divisible by 10 (cls = "fin"), an infinity (cls = "inf")  *)
(* or a NaN (cls = "nan").  Python dicts keep their insertion order: a     *)
(* dict is [keys |-> sequence of keys in insertion order, val |-> function *)
(* from the keys to the values].  A call that can raise returns            *)
(* [exc |-> name of the exception or "", val |-> the returned value].      *)
(***************************************************************************)
EXTENDS Integers, Sequences, FiniteSets, TLC

(* ------------------------------ bounds -------------------------------- *)
\* longest attribute text of the text family of documents
MaxLen == 5
\* most top-level children of a document of the structure family
MaxChildren == 3

\* characters attribute texts are made of; float() is modelled on these
Chars == {"0", "1", ".", "-", " ", "a", "n"}

(* --------------------------- Python strings --------------------------- *)
\* str.strip() / str.split() without argument work on whitespace
Whitespace == {" "}

Digits == <<"0", "1", "2", "3", "4", "5", "6", "7", "8", "9">>

IsDigit(c) == \E i \in 1..10 : Digits[i] = c

DigitValue(c) == (CHOOSE i \in 1..10 : Digits[i] = c) - 1

RECURSIVE lstrip(_)
lstrip(s) ==
    IF Len(s) > 0 /\ Head(s) \in Whitespace THEN lstrip(Tail(s)) ELSE s

RECURSIVE rstrip(_)
rstrip(s) ==
    IF Len(s) > 0 /\ s[Len(s)] \in Whitespace
    THEN rstrip(SubSeq(s, 1, Len(s) - 1))
    ELSE s

strip(s) == rstrip(lstrip(s))

\* length of the longest prefix of s without whitespace
RECURSIVE TokenLen(_)
TokenLen(s) ==
    IF Len(s) = 0 \/ Head(s) \in Whitespace THEN 0 ELSE 1 + TokenLen(Tail(s))

\* str.split(): the maximal runs of non-whitespace characters, in order
RECURSIVE split(_)
split(s) ==
    LET t == lstrip(s)
        n == TokenLen(t)
    IN  IF Len(t) = 0 THEN <<>>
        ELSE <<SubSeq(t, 1, n)>> \o split(SubSeq(t, n + 1, Len(t)))

(* --------------------------- Python floats ---------------------------- *)
NaN == [cls |-> "nan", neg |-> FALSE, mant |-> 0, exp |-> 0]

Inf(neg) == [cls |-> "inf", neg |-> neg, mant |-> 0, exp |-> 0]

\* mant * 10^exp with the trailing zeros of mant moved into exp
RECURSIVE Normalize(_, _)
Normalize(mant, exp) ==
    IF mant = 0 THEN <<0, 0>>
    ELSE IF mant % 10 = 0 THEN Normalize(mant \div 10, exp + 1)
    ELSE <<mant, exp>>

Fin(neg, mant, exp) ==
    LET n == Normalize(mant, exp)
    IN  [cls |-> "fin", neg |-> neg, mant |-> n[1], exp |-> n[2]]

\* value of a sequence of decimal digits
RECURSIVE DigitsValue(_)
DigitsValue(ds) ==
    IF Len(ds) = 0 THEN 0
    ELSE 10 * DigitsValue(SubSeq(ds, 1, Len(ds) - 1)) + DigitValue(ds[Len(ds)])

\* float == on two floats: a NaN equals nothing, -0.0 equals 0.0
FloatEq(a, b) ==
    /\ a.cls # "nan"
    /\ b.cls # "nan"
    /\ a.cls = b.cls
    /\ a.mant = b.mant
    /\ a.exp = b.exp
    /\ (a.neg = b.neg \/ (a.cls = "fin" /\ a.mant = 0))

Ok(v) == [exc |-> "", val |-> v]

Raise(e) == [exc |-> e, val |-> <<>>]

\* float(str): surrounding whitespace is ignored, then an optional sign and
\* either nan, inf, infinity or digits with at most one point and at least
\* one digit; anything else raises ValueError.  (Exponents, underscores and
\* upper case need characters outside Chars.)
float(str) ==
    LET t      == strip(str)
        signed == Len(t) > 0 /\ t[1] \in {"-", "+"}
        neg    == Len(t) > 0 /\ t[1] = "-"
        body   == IF signed THEN Tail(t) ELSE t
        dots   == {i \in 1..Len(body) : body[i] = "."}
        dot    == IF dots = {} THEN Len(body) + 1 ELSE CHOOSE i \in dots : TRUE
        int    == SubSeq(body, 1, dot - 1)
        frac   == SubSeq(body, dot + 1, Len(body))
    IN  IF body = <<"n", "a", "n">> THEN Ok(NaN)
        ELSE IF body \in {<<"i", "n", "f">>,
                          <<"i", "n", "f", "i", "n", "i", "t", "y">>}
        THEN Ok(Inf(neg))
        ELSE IF /\ Cardinality(dots) <= 1
                /\ Len(int) + Len(frac) > 0
                /\ \A i \in 1..Len(int) : IsDigit(int[i])
                /\ \A i \in 1..Len(frac) : IsDigit(frac[i])
        THEN Ok(Fin(neg, DigitsValue(int \o frac), 0 - Len(frac)))
        ELSE Raise("ValueError")

(* ------------------------------ values -------------------------------- *)
Number(f) == [kind |-> "Number", f |-> f]

Point(x, y, z) == [kind |-> "Point", x |-> x, y |-> y, z |-> z]

Text(s) == [kind |-> "Text", s |-> s]

\* the text of an element without text content
None == <<"None">>

(* ------------------------------- dicts -------------------------------- *)
EmptyDict == [keys |-> <<>>, val |-> [k \in {} |-> 0]]

\* k in d
Has(d, k) == k \in DOMAIN d.val

\* d.get(k, default)
Get(d, k, default) == IF Has(d, k) THEN d.val[k] ELSE default

\* d[k] = v: a new key goes last, a known key keeps its place
Set(d, k, v) ==
    [keys |-> IF Has(d, k) THEN d.keys ELSE Append(d.keys, k),
     val  |-> [x \in DOMAIN d.val \cup {k} |-> IF x = k THEN v ELSE d.val[x]]]

(* ------------------------- the typed extractor ------------------------ *)
is_number(s) == float(s).exc = ""

\* faulty variant of is_point: any() where the code has all()
is_point_any(text) ==
    LET parts == split(text)
    IN  Len(parts) = 3 /\ \E i \in 1..Len(parts) : is_number(parts[i])

is_point(text) ==
    LET parts == split(text)
    IN  Len(parts) = 3 /\ \A i \in 1..Len(parts) : is_number(parts[i])

\* faulty variant of parse_point: y and z taken from the wrong tokens
parse_point_swapped(text) ==
    LET parts == split(text)
    IN  IF Len(parts) < 3 THEN Raise("IndexError")
        ELSE IF \E i \in 1..3 : float(parts[i]).exc # ""
        THEN Raise("ValueError")
        ELSE Ok(Point(float(parts[1]).val, float(parts[3]).val,
                      float(parts[2]).val))

\* parts[i] of a missing index raises IndexError, float() of a part that is
\* no number raises ValueError; nothing here catches either
parse_point(text) ==
    LET parts == split(text)
    IN  IF Len(parts) < 3 THEN Raise("IndexError")
        ELSE IF \E i \in 1..3 : float(parts[i]).exc # ""
        THEN Raise("ValueError")
        ELSE Ok(Point(float(parts[1]).val, float(parts[2]).val,
                      float(parts[3]).val))

\* faulty variant of classify: a missing text is read as the empty string
classify_lenient(text) ==
    LET sub_child_text == IF text = None THEN <<>> ELSE strip(text)
    IN  IF is_number(sub_child_text)
        THEN Ok(Number(float(sub_child_text).val))
        ELSE IF is_point(sub_child_text)
        THEN parse_point(sub_child_text)
        ELSE Ok(Text(sub_child_text))

\* the value stored for one attribute node: None has no strip(), then
\* number before point before text
classify(text) ==
    IF text = None THEN Raise("AttributeError")
    ELSE LET sub_child_text == strip(text)
         IN  IF is_number(sub_child_text)
             THEN Ok(Number(float(sub_child_text).val))
             ELSE IF is_point(sub_child_text)
             THEN parse_point(sub_child_text)
             ELSE Ok(Text(sub_child_text))

\* feature_details[tag] = value, the value being the outcome of a call: an
\* exception, raised before or by that call, is passed on
SetAttribute(before, tag, value) ==
    IF before.exc # "" THEN before
    ELSE IF value.exc # "" THEN Raise(value.exc)
    ELSE Ok(Set(before.val, tag, value.val))

\* the inner loop over the first n attribute nodes of a feature node
RECURSIVE feature_details(_, _)
feature_details(child, n) ==
    IF n = 0 THEN Ok(EmptyDict)
    ELSE SetAttribute(feature_details(child, n - 1), child.children[n].tag,
                      classify(child.children[n].text))

\* faulty variant of AppendFeature: the list is created anew for every child
AppendFeature_overwrite(features, tag, details) ==
    Set(features, tag, <<details>>)

\* features[child.tag].append(feature_details), the list created when the
\* tag is new
AppendFeature(features, tag, details) ==
    Set(features, tag, Append(Get(features, tag, <<>>), details))

\* one pass of the outer loop: the details of a child, the outcome of its
\* inner loop, are appended; an exception, raised before or by that loop,
\* is passed on
AddChild(before, tag, details) ==
    IF before.exc # "" THEN before
    ELSE IF details.exc # "" THEN Raise(details.exc)
    ELSE Ok(AppendFeature(before.val, tag, details.val))

\* the outer loop over the first n children of the root
RECURSIVE features_after(_, _)
features_after(root, n) ==
    IF n = 0 THEN Ok(EmptyDict)
    ELSE AddChild(features_after(root, n - 1), root[n].tag,
                  feature_details(root[n], Len(root[n].children)))

extract_features(root) == features_after(root, Len(root))

(* ------------------------ the structural differ ----------------------- *)
\* faulty variant of NotEqual: values of different types are never told apart
NotEqual_sametype(a, b, same) ==
    IF a.kind # b.kind THEN FALSE
    ELSE IF a.kind = "Number" THEN ~FloatEq(a.f, b.f)
    ELSE IF a.kind = "Point"
    THEN ~(same \/ (FloatEq(a.x, b.x) /\ FloatEq(a.y, b.y) /\ FloatEq(a.z, b.z)))
    ELSE a.s # b.s

\* a != b for two stored values.  Values of different types are unequal;
\* two floats are compared by float ==; two strings by their characters;
\* two point dicts field by field, where dict comparison takes a field that
\* is one and the same object on both sides as equal without comparing it
\* (same: a and b are the same object, as when a collection is compared
\* with itself).
NotEqual(a, b, same) ==
    IF a.kind # b.kind THEN TRUE
    ELSE IF a.kind = "Number" THEN ~FloatEq(a.f, b.f)
    ELSE IF a.kind = "Point"
    THEN ~(same \/ (FloatEq(a.x, b.x) /\ FloatEq(a.y, b.y) /\ FloatEq(a.z, b.z)))
    ELSE a.s # b.s

NA == Text(<<"N", "/", "A">>)

Unknown == Text(<<"U", "n", "k", "n", "o", "w", "n">>)

\* the loop over the first n keys of cad2_detail
RECURSIVE changed_fields(_, _, _, _)
changed_fields(cad1_detail, cad2_detail, same, n) ==
    IF n = 0 THEN EmptyDict
    ELSE LET before == changed_fields(cad1_detail, cad2_detail, same, n - 1)
             key    == cad2_detail.keys[n]
             value  == cad2_detail.val[key]
         IN  IF \/ ~Has(cad1_detail, key)
                \/ NotEqual(cad1_detail.val[key], value, same)
             THEN Set(before, key, [old |-> Get(cad1_detail, key, NA),
                                    new |-> value])
             ELSE before

Min(a, b) == IF a < b THEN a ELSE b

\* the loop over the first n pairs of zip(cad2_list, cad1_list)
RECURSIVE feature_modifications(_, _, _, _)
feature_modifications(cad1_list, cad2_list, same, n) ==
    IF n = 0 THEN <<>>
    ELSE LET before == feature_modifications(cad1_list, cad2_list, same, n - 1)
             cad2_detail == cad2_list[n]
             cad1_detail == cad1_list[n]
             fields == changed_fields(cad1_detail, cad2_detail, same,
                                      Len(cad2_detail.keys))
         IN  IF fields.keys # <<>>
             THEN Append(before, [name   |-> Get(cad2_detail, "Name", Unknown),
                                  fields |-> fields])
             ELSE before

\* faulty variant of additions_step: the surplus is not cut off the list of
\* cad2, the whole list is entered
additions_step_whole(report, cad1, cad2, same, feature) ==
    LET cad2_list == cad2.val[feature]
        cad1_list == Get(cad1, feature, <<>>)
        mods      == feature_modifications(cad1_list, cad2_list, same,
                         Min(Len(cad1_list), Len(cad2_list)))
    IN  IF ~Has(cad1, feature)
        THEN [report EXCEPT !.additions = Set(@, feature, cad2_list)]
        ELSE [additions |->
                 IF Len(cad2_list) > Len(cad1_list)
                 THEN Set(report.additions, feature, cad2_list)
                 ELSE report.additions,
              modifications |->
                 IF mods # <<>>
                 THEN Set(report.modifications, feature, mods)
                 ELSE report.modifications]

\* faulty variant of additions_step: a feature new in cad2 is entered with
\* the list of cad1, which has none
additions_step_cad1(report, cad1, cad2, same, feature) ==
    LET cad2_list == cad2.val[feature]
        cad1_list == Get(cad1, feature, <<>>)
        mods      == feature_modifications(cad1_list, cad2_list, same,
                         Min(Len(cad1_list), Len(cad2_list)))
    IN  IF ~Has(cad1, feature)
        THEN [report EXCEPT !.additions = Set(@, feature, cad1_list)]
        ELSE [additions |->
                 IF Len(cad2_list) > Len(cad1_list)
                 THEN Set(report.additions, feature,
                          SubSeq(cad2_list, Len(cad1_list) + 1, Len(cad2_list)))
                 ELSE report.additions,
              modifications |->
                 IF mods # <<>>
                 THEN Set(report.modifications, feature, mods)
                 ELSE report.modifications]

\* one pass of the first loop, for one feature of cad2: its additions and
\* modifications are entered into the report so far
additions_step(report, cad1, cad2, same, feature) ==
    LET cad2_list == cad2.val[feature]
        cad1_list == Get(cad1, feature, <<>>)
        mods      == feature_modifications(cad1_list, cad2_list, same,
                         Min(Len(cad1_list), Len(cad2_list)))
    IN  IF ~Has(cad1, feature)
        THEN [report EXCEPT !.additions = Set(@, feature, cad2_list)]
        ELSE [additions |->
                 IF Len(cad2_list) > Len(cad1_list)
                 THEN Set(report.additions, feature,
                          SubSeq(cad2_list, Len(cad1_list) + 1, Len(cad2_list)))
                 ELSE report.additions,
              modifications |->
                 IF mods # <<>>
                 THEN Set(report.modifications, feature, mods)
                 ELSE report.modifications]

\* the first loop, over the first n features of cad2
RECURSIVE additions_and_modifications(_, _, _, _)
additions_and_modifications(cad1, cad2, same, n) ==
    IF n = 0 THEN [additions |-> EmptyDict, modifications |-> EmptyDict]
    ELSE additions_step(additions_and_modifications(cad1, cad2, same, n - 1),
                        cad1, cad2, same, cad2.keys[n])

\* faulty variant of removals_step: >= where the code has >
removals_step_ge(before, cad1, cad2, feature) ==
    LET cad1_list == cad1.val[feature]
        cad2_list == Get(cad2, feature, <<>>)
    IN  IF ~Has(cad2, feature)
        THEN Set(before, feature, cad1_list)
        ELSE IF Len(cad1_list) >= Len(cad2_list)
        THEN Set(before, feature,
                 SubSeq(cad1_list, Len(cad2_list) + 1, Len(cad1_list)))
        ELSE before

\* faulty variant of removals_step: the whole list where the code has the
\* slice after the paired records
removals_step_whole(before, cad1, cad2, feature) ==
    LET cad1_list == cad1.val[feature]
        cad2_list == Get(cad2, feature, <<>>)
    IN  IF ~Has(cad2, feature)
        THEN Set(before, feature, cad1_list)
        ELSE IF Len(cad1_list) > Len(cad2_list)
        THEN Set(before, feature, cad1_list)
        ELSE before

\* one pass of the second loop, for one feature of cad1: its removals are
\* entered into the removals so far
removals_step(before, cad1, cad2, feature) ==
    LET cad1_list == cad1.val[feature]
        cad2_list == Get(cad2, feature, <<>>)
    IN  IF ~Has(cad2, feature)
        THEN Set(before, feature, cad1_list)
        ELSE IF Len(cad1_list) > Len(cad2_list)
        THEN Set(before, feature,
                 SubSeq(cad1_list, Len(cad2_list) + 1, Len(cad1_list)))
        ELSE before

\* faulty variant of removals: the features of cad1 are visited from the
\* last one to the first
RECURSIVE removals_reversed(_, _, _)
removals_reversed(cad1, cad2, n) ==
    IF n = 0 THEN EmptyDict
    ELSE removals_step(removals_reversed(cad1, cad2, n - 1), cad1, cad2,
                       cad1.keys[Len(cad1.keys) - n + 1])

\* the second loop, over the first n features of cad1
RECURSIVE removals(_, _, _)
removals(cad1, cad2, n) ==
    IF n = 0 THEN EmptyDict
    ELSE removals_step(removals(cad1, cad2, n - 1), cad1, cad2, cad1.keys[n])

\* same: cad1 and cad2 are one and the same object
compare_features(cad1, cad2, same) ==
    LET first == additions_and_modifications(cad1, cad2, same, Len(cad2.keys))
    IN  [additions     |-> first.additions,
         modifications |-> first.modifications,
         removals      |-> removals(cad1, cad2, Len(cad1.keys))]

(* ------------------ the machine-operation extractor ------------------- *)
\* dsvc/cam_parser_xml.py
TOOLSTYPELIST == {"TurningToolStandard", "Drill", "SpotDrill"}

\* the attribute names parse_cam_xml converts with float()
NumericNames == {"Step", "SurfaceSpeed", "FeedRate", "Stock", "NoseRadius"}

\* d[tag] = value, the value being the outcome of a call: an exception,
\* raised before or by that call, is passed on
SetDetail(before, tag, value) ==
    IF before.exc # "" THEN before
    ELSE IF value.exc # "" THEN Raise(value.exc)
    ELSE Ok(Set(before.val, tag, value.val))

\* tool_attr.text.strip(): None has no strip()
StrippedText(text) ==
    IF text = None THEN Raise("AttributeError") ELSE Ok(Text(strip(text)))

\* the loop over the first n children of a tool node
RECURSIVE tool_info(_, _)
tool_info(attribute, n) ==
    IF n = 0 THEN Ok(EmptyDict)
    ELSE SetDetail(tool_info(attribute, n - 1), attribute.children[n].tag,
                   StrippedText(attribute.children[n].text))

\* float(attribute_text) as the value of a numeric attribute: its
\* ValueError is not caught
NumericValue(f) == IF f.exc # "" THEN Raise(f.exc) ELSE Ok(Number(f.val))

\* faulty variant of operation_value: a leaf attribute outside the numeric
\* names is classified by the shape of its text, as extract_features does
operation_value_classified(attribute) ==
    IF attribute.tag \in TOOLSTYPELIST
    THEN tool_info(attribute, Len(attribute.children))
    ELSE IF attribute.text = None THEN Raise("AttributeError")
    ELSE IF attribute.tag \in NumericNames
    THEN NumericValue(float(strip(attribute.text)))
    ELSE classify(attribute.text)

\* the value stored for one child of an operation: a tool sub-record for
\* a tool tag, a float for a numeric name, the trimmed text otherwise
operation_value(attribute) ==
    IF attribute.tag \in TOOLSTYPELIST
    THEN tool_info(attribute, Len(attribute.children))
    ELSE IF attribute.text = None THEN Raise("AttributeError")
    ELSE IF attribute.tag \in NumericNames
    THEN NumericValue(float(strip(attribute.text)))
    ELSE Ok(Text(strip(attribute.text)))

\* the loop over the first n children of an operation
RECURSIVE operation_details(_, _)
operation_details(operation, n) ==
    IF n = 0 THEN Ok(EmptyDict)
    ELSE SetDetail(operation_details(operation, n - 1),
                   operation.children[n].tag,
                   operation_value(operation.children[n]))

\* operations[operation_type].append(operation_details), the details being
\* the outcome of the loop over the operation's children
AddOperation(before, operation_type, details) ==
    IF before.exc # "" THEN before
    ELSE IF details.exc # "" THEN Raise(details.exc)
    ELSE Ok(Set(before.val, operation_type,
                Append(Get(before.val, operation_type, <<>>), details.val)))

\* the loop over the first n children of the root
RECURSIVE operations_after(_, _)
operations_after(root, n) ==
    IF n = 0 THEN Ok(EmptyDict)
    ELSE AddOperation(operations_after(root, n - 1), root[n].tag,
                      operation_details(root[n], Len(root[n].children)))

\* parse_cam_xml on the parsed document
parse_cam_xml(root) == operations_after(root, Len(root))

(* ----------------------------- documents ----------------------------- *)
\* A document is the sequence of the children of its root; a child (a
\* feature node) is [tag, children], its children (the attribute nodes) are
\* [tag, text].
Attr(tag, text) == [tag |-> tag, text |-> text]

Feature(tag, attrs) == [tag |-> tag, children |-> attrs]

SeqsUpTo(S, n) == UNION {[1..k -> S] : k \in 0..n}

\* structure family: up to MaxChildren features of two tags, those of tag A
\* told apart by their Name
StructFeatures ==
    {Feature("A", <<Attr("Name", <<"a">>)>>),
     Feature("A", <<Attr("Name", <<"b">>)>>),
     Feature("B", <<Attr("Name", <<"b">>)>>)}

StructDocs == SeqsUpTo(StructFeatures, MaxChildren)

\* field family: one feature with an optional Name and an optional D whose
\* text covers the three kinds of value, equal numbers written differently,
\* both zeros, NaN, and no text at all
FieldTexts ==
    {<<"1">>, <<"1", ".", "0">>, <<"0">>, <<"-", "0">>, <<"n", "a", "n">>,
     <<"1", " ", "0", " ", "1">>, <<"1", " ", "n", "a", "n", " ", "1">>,
     <<"1", " ", "0">>, <<"a">>, <<" ">>, None}

FieldDocs ==
    {<<Feature("A", name \o d)>> :
        name \in {<<>>} \cup {<<Attr("Name", n)>> : n \in {<<"a">>, <<"b">>}},
        d    \in {<<>>} \cup {<<Attr("D", t)>> : t \in FieldTexts}}

\* order family: one feature of each of the two tags, in either order
OrderDocs ==
    {<<Feature(t[1], <<Attr("Name", n1)>>), Feature(t[2], <<Attr("Name", n2)>>)>> :
        t \in {<<"A", "B">>, <<"B", "A">>},
        n1 \in {<<"a">>, <<"b">>}, n2 \in {<<"a">>, <<"b">>}}

\* text family: one feature with one attribute of any text up to MaxLen
\* characters, or without text
TextDocs ==
    {<<Feature("A", <<Attr("D", t)>>)>> : t \in SeqsUpTo(Chars, MaxLen) \cup {None}}

\* a tool node of a machine document: a tag and its own attribute nodes
Tool(tag, attrs) == [tag |-> tag, text |-> None, children |-> attrs]

\* the children an operation of the machine family can have: a numeric
\* name, any other leaf, a tool with one attribute
CamNodes ==
    {Attr(n, t) : n \in {"Step", "D"}, t \in FieldTexts}
        \cup {Tool("Drill", <<Attr("Name", t)>>) : t \in FieldTexts}

\* machine family: one operation with one child or with two children of
\* different tags
CamDocs ==
    {<<Feature("Turning", <<a>>)>> : a \in CamNodes}
        \cup {<<Feature("Turning", <<p[1], p[2]>>)>> :
                 p \in {q \in CamNodes \X CamNodes : q[1].tag # q[2].tag}}

(* ------------------------------ main.py ------------------------------- *)
VARIABLES
    cam_root,            \* the parsed machine document
    cam_operations,      \* parse_cam_xml of it
    blank_root,          \* the parsed blank document
    component_root,      \* the parsed component document
    pc,                  \* where main() is
    blank_features,      \* extract_features(blank_root)
    component_features,  \* extract_features(component_root)
    differences,         \* the report of the last compare_features call
    call,                \* the arguments of that call
    bound,               \* the names main() has assigned so far
    exc                  \* the exception that ended main(), "" when none

vars == <<blank_root, component_root, pc, blank_features, component_features,
          differences, call, bound, exc, cam_root, cam_operations>>

NoReport ==
    [additions |-> EmptyDict, modifications |-> EmptyDict, removals |-> EmptyDict]

Start(doc1, doc2) ==
    /\ blank_root = doc1
    /\ component_root = doc2
    /\ pc = "start"
    /\ blank_features = EmptyDict
    /\ component_features = EmptyDict
    /\ differences = NoReport
    /\ call = "none"
    /\ bound = {}
    /\ exc = ""

\* the machine document main() starts with
StartCam(doc) ==
    /\ cam_root = doc
    /\ cam_operations = EmptyDict

\* in the families of part documents the machine document has the tree of
\* the blank document, so that the two extractors read the same texts
Init ==
    \/ \E doc1 \in StructDocs, doc2 \in StructDocs :
           Start(doc1, doc2) /\ StartCam(doc1)
    \/ \E doc1 \in FieldDocs, doc2 \in FieldDocs :
           Start(doc1, doc2) /\ StartCam(doc1)
    \/ \E doc1 \in OrderDocs, doc2 \in OrderDocs :
           Start(doc1, doc2) /\ StartCam(doc1)

OneNumber == <<Feature("A", <<Attr("D", <<"1">>)>>)>>

InitText == \E doc1 \in TextDocs : Start(doc1, OneNumber) /\ StartCam(doc1)

InitCam ==
    \/ InitText
    \/ \E doc3 \in CamDocs : Start(OneNumber, OneNumber) /\ StartCam(doc3)

\* name = cad.extract_features(...) has the outcome r: an exception ends
\* main() with name unbound, a return binds name and main() goes on at next
Assigned(r, name, next) ==
    /\ pc' = IF r.exc # "" THEN "crashed" ELSE next
    /\ exc' = r.exc
    /\ bound' = IF r.exc # "" THEN bound ELSE bound \cup {name}
    /\ blank_features' =
           IF r.exc = "" /\ name = "blank_features" THEN r.val ELSE blank_features
    /\ component_features' =
           IF r.exc = "" /\ name = "component_features" THEN r.val
           ELSE component_features

\* blank_features = cad.extract_features(blank_root)
ExtractBlank ==
    /\ pc = "start"
    /\ Assigned(extract_features(blank_root), "blank_features", "blank")
    /\ UNCHANGED <<blank_root, component_root, differences, call, cam_root,
                   cam_operations>>

\* component_features = cad.extract_features(component_root)
ExtractComponent ==
    /\ pc = "blank"
    /\ Assigned(extract_features(component_root), "component_features", "component")
    /\ UNCHANGED <<blank_root, component_root, differences, call, cam_root,
                   cam_operations>>

\* the ways the two collections are handed to compare_features: blank
\* against component as main() does, the two swapped, and the blank
\* collection against itself
Calls == {"forward", "swapped", "self"}

Report(c) ==
    IF c = "forward"
    THEN compare_features(blank_features, component_features, FALSE)
    ELSE IF c = "swapped"
    THEN compare_features(component_features, blank_features, FALSE)
    ELSE compare_features(blank_features, blank_features, TRUE)

\* the collection without the tags of a part of the report (what the
\* faulty variant below leaves of cad1)
Without(coll, part) ==
    [keys |-> SelectSeq(coll.keys, LAMBDA tag : ~Has(part, tag)),
     val  |-> [tag \in {t \in DOMAIN coll.val : ~Has(part, t)} |-> coll.val[tag]]]

\* faulty variant of Compare: the call takes the removed tags out of cad1
Compare_moving(c) ==
    /\ pc = "component"
    /\ pc' = "compared"
    /\ differences' = Report(c)
    /\ call' = c
    /\ bound' = bound \cup {"differences"}
    /\ blank_features' = IF c = "swapped" THEN blank_features
                          ELSE Without(blank_features, Report(c).removals)
    /\ component_features' = IF c = "swapped"
                              THEN Without(component_features, Report(c).removals)
                              ELSE component_features
    /\ UNCHANGED <<blank_root, component_root, exc, cam_root, cam_operations>>

\* differences = cad.compare_features(...)
Compare(c) ==
    /\ pc = "component"
    /\ pc' = "compared"
    /\ differences' = Report(c)
    /\ call' = c
    /\ bound' = bound \cup {"differences"}
    /\ UNCHANGED <<blank_root, component_root, blank_features,
                   component_features, exc, cam_root, cam_operations>>

\* cam_operations = cam.parse_cam_xml(cam_file_path) has the outcome r
Parsed(r) ==
    /\ pc' = IF r.exc # "" THEN "crashed" ELSE "cam"
    /\ exc' = r.exc
    /\ bound' = IF r.exc # "" THEN bound ELSE bound \cup {"cam_operations"}
    /\ cam_operations' = IF r.exc # "" THEN cam_operations ELSE r.val

\* cam_operations: cam.CAMOperations = cam.parse_cam_xml(cam_file_path)
ParseCam ==
    /\ pc = "compared"
    /\ Parsed(parse_cam_xml(cam_root))
    /\ UNCHANGED <<blank_root, component_root, blank_features,
                   component_features, differences, call, cam_root>>

Next ==
    \/ ExtractBlank
    \/ ExtractComponent
    \/ \E c \in Calls : Compare(c)
    \/ ParseCam

Spec == Init /\ [][Next]_vars

SpecText == InitText /\ [][Next]_vars

SpecCam == InitCam /\ [][Next]_vars

(* ------------------------------ properties ---------------------------- *)
Tags == {"A", "B"}

\* the collection compare_features was given as cad1 (the baseline) and as
\* cad2 (the target) in the call that made the report
Baseline == IF call = "swapped" THEN component_features ELSE blank_features

Target == IF call = "forward" THEN component_features ELSE blank_features

\* the records of a tag, none when the collection has no such tag
Records(coll, tag) == Get(coll, tag, <<>>)

\* the features of a document with a given tag, in document order
FeaturesOf(root, tag) == SelectSeq(root, LAMBDA child : child.tag = tag)

\* the trimmed text of the one attribute of a document of the text family
TheText(root) == strip(root[1].children[1].text)

\* the value stored for it
TheValue(features) == features.val["A"][1].val["D"]

\* the text is three whitespace-separated numbers
ThreeNumbers(t) ==
    LET parts == split(t)
    IN  Len(parts) = 3 /\ \A i \in 1..3 : float(parts[i]).exc = ""

\* some attribute node of the document has no text content
MissingText(root) ==
    \E i \in 1..Len(root) :
        \E j \in 1..Len(root[i].children) : root[i].children[j].text = None

\* C1: comparing a collection with itself gives a report whose additions,
\* modifications and removals are all empty.
C1_DiffIdentity ==
    (pc = "compared" /\ call = "self") =>
        /\ differences.additions.keys = <<>>
        /\ differences.modifications.keys = <<>>
        /\ differences.removals.keys = <<>>

\* C2: for every attribute text, the empty and the whitespace-only ones
\* included, extraction raises nothing and stores a Number, a Point or a
\* Text; a text that is neither a number nor three numbers is stored as Text.
C2_ClassificationTotal ==
    (pc # "start" /\ blank_root[1].children[1].text # None) =>
        /\ exc = ""
        /\ "blank_features" \in bound
        /\ TheValue(blank_features).kind \in {"Number", "Point", "Text"}
        /\ (float(TheText(blank_root)).exc # "" /\ ~ThreeNumbers(TheText(blank_root)))
               => TheValue(blank_features).kind = "Text"

C2_Witness ==
    /\ pc = "blank"
    /\ blank_root[1].children[1].text = <<" ", " ">>
    /\ TheValue(blank_features) = Text(<<>>)

\* C3: the stored value is the Number of the trimmed text when the whole
\* text is a float; otherwise the Point of its three tokens, x, y, z in
\* token order, when it splits into exactly three floats; otherwise the
\* trimmed text itself as Text.
C3_ClassificationPrecedence ==
    (pc # "start" /\ blank_root[1].children[1].text # None
                  /\ "blank_features" \in bound) =>
        LET t     == TheText(blank_root)
            parts == split(t)
            v     == TheValue(blank_features)
        IN  IF float(t).exc = "" THEN v = Number(float(t).val)
            ELSE IF ThreeNumbers(t)
            THEN v = [kind |-> "Point", x |-> float(parts[1]).val,
                      y |-> float(parts[2]).val, z |-> float(parts[3]).val]
            ELSE v = Text(t)

C3_Witness ==
    /\ pc = "blank"
    /\ blank_root[1].children[1].text = <<"1", " ", "0", " ", "0">>
    /\ TheValue(blank_features).kind = "Point"
    /\ TheValue(blank_features).x # TheValue(blank_features).y

\* the extracted collection has, for every tag, one record per feature of
\* the document with that tag, in document order
ExtractedInOrder(root, features) ==
    \A tag \in Tags :
        LET nodes == FeaturesOf(root, tag)
        IN  /\ Has(features, tag) <=> nodes # <<>>
            /\ Len(Records(features, tag)) = Len(nodes)
            /\ \A j \in 1..Len(nodes) :
                   Records(features, tag)[j] =
                       feature_details(nodes[j], Len(nodes[j].children)).val

\* C4: extract_features(root)[T] has exactly one record per top-level child
\* with tag T, in the relative order of the children in the document.
C4_ExtractionOrder ==
    /\ "blank_features" \in bound => ExtractedInOrder(blank_root, blank_features)
    /\ "component_features" \in bound =>
           ExtractedInOrder(component_root, component_features)

C4_Witness ==
    /\ pc = "blank"
    /\ Len(blank_root) = 3
    /\ blank_root[1].tag = "A" /\ blank_root[2].tag = "B" /\ blank_root[3].tag = "A"
    /\ blank_root[1] # blank_root[3]
    /\ Len(blank_features.val["A"]) = 2
    /\ blank_features.val["A"][1] # blank_features.val["A"][2]

\* two floats are the same number: NaN is NaN, both zeros are zero
SameFloat(f, g) == f = g \/ (f.cls = "fin" /\ g.cls = "fin" /\ f.mant = 0 /\ g.mant = 0)

\* two values are different: of different variants, or Numbers that are
\* not the same number, or Points that differ in a field, or Texts that
\* differ in a character
Different(a, b) ==
    \/ a.kind # b.kind
    \/ a.kind = "Number" /\ ~SameFloat(a.f, b.f)
    \/ a.kind = "Point" /\ ~(SameFloat(a.x, b.x) /\ SameFloat(a.y, b.y)
                                                  /\ SameFloat(a.z, b.z))
    \/ a.kind = "Text" /\ a.s # b.s

\* the keys of the target record that are absent from the baseline record
\* or map to a different value there
ChangedKeys(base, target) ==
    {k \in DOMAIN target.val : ~Has(base, k) \/ Different(base.val[k], target.val[k])}

\* the modification entry of a pair of records
EntryOf(base, target) ==
    [name   |-> Get(target, "Name", Unknown),
     fields |-> [k \in ChangedKeys(base, target) |->
                    [old |-> Get(base, k, NA), new |-> target.val[k]]]]

\* C5: for a tag in both collections the records are paired by index up to
\* the shorter list; a pair's changed fields are exactly the keys of the
\* target record that are absent from the baseline record or map to a
\* different value, each with new = the target value and old = the baseline
\* value or "N/A"; a pair has one modification entry, under the target
\* record's Name or "Unknown", if and only if a field changed.
C5_FieldModifications ==
    pc = "compared" =>
        \A tag \in Tags :
            (Has(Baseline, tag) /\ Has(Target, tag)) =>
                LET base    == Baseline.val[tag]
                    target  == Target.val[tag]
                    changed == {i \in 1..Min(Len(base), Len(target)) :
                                   ChangedKeys(base[i], target[i]) # {}}
                    entries == Records(differences.modifications, tag)
                IN  /\ Has(differences.modifications, tag) <=> changed # {}
                    /\ Len(entries) = Cardinality(changed)
                    /\ \A i \in changed :
                           LET e == entries[Cardinality({j \in changed : j <= i})]
                           IN  /\ e.name = EntryOf(base[i], target[i]).name
                               /\ e.fields.val = EntryOf(base[i], target[i]).fields

\* C6: when the target has one more record of a tag than the baseline, the
\* additions of the tag are exactly that last record; in the report of the
\* swapped call, where the longer list is the baseline, the same record is
\* the removals of the tag and the tag has no additions.
C6_AdditionRemovalSymmetry ==
    pc = "compared" =>
        \A tag \in Tags :
            /\ Len(Records(Target, tag)) = Len(Records(Baseline, tag)) + 1 =>
                   /\ Has(differences.additions, tag)
                   /\ differences.additions.val[tag] =
                          <<Target.val[tag][Len(Target.val[tag])]>>
            /\ Len(Records(Baseline, tag)) = Len(Records(Target, tag)) + 1 =>
                   /\ Has(differences.removals, tag)
                   /\ differences.removals.val[tag] =
                          <<Baseline.val[tag][Len(Baseline.val[tag])]>>
                   /\ ~Has(differences.additions, tag)

C6_Witness ==
    /\ pc = "compared"
    /\ call = "swapped"
    /\ Len(Records(blank_features, "A")) = 1
    /\ Len(Records(component_features, "A")) = 2
    /\ component_features.val["A"][1] # component_features.val["A"][2]
    /\ differences.removals.val["A"] = <<component_features.val["A"][2]>>
    /\ compare_features(blank_features, component_features, FALSE).additions.val["A"]
           = <<component_features.val["A"][2]>>

\* C7: for a tag of the target that the baseline does not have, the
\* additions of the tag are the whole list of the target, in order, and the
\* tag is no key of the modifications nor of the removals.
C7_WholeTagAddition ==
    pc = "compared" =>
        \A tag \in Tags :
            (Has(Target, tag) /\ ~Has(Baseline, tag)) =>
                /\ Has(differences.additions, tag)
                /\ differences.additions.val[tag] = Target.val[tag]
                /\ ~Has(differences.modifications, tag)
                /\ ~Has(differences.removals, tag)

C7_Witness ==
    /\ pc = "compared"
    /\ call = "forward"
    /\ ~Has(blank_features, "B")
    /\ Has(blank_features, "A")
    /\ Len(Records(component_features, "B")) = 2
    /\ differences.additions.val["B"] = component_features.val["B"]

\* C8: for a tag of the baseline the removals are the whole baseline list
\* when the target lacks the tag, the baseline records from the length of
\* the target list on when both have it and the baseline list is longer,
\* and the tag is no key of the removals otherwise; no tag the baseline
\* lacks is a key of the removals.
C8_RemovalsCharacterised ==
    pc = "compared" =>
        /\ \A tag \in DOMAIN differences.removals.val : Has(Baseline, tag)
        /\ \A tag \in Tags :
               Has(Baseline, tag) =>
                   LET base   == Baseline.val[tag]
                       target == Records(Target, tag)
                   IN  IF ~Has(Target, tag)
                       THEN /\ Has(differences.removals, tag)
                            /\ differences.removals.val[tag] = base
                       ELSE IF Len(base) > Len(target)
                       THEN /\ Has(differences.removals, tag)
                            /\ differences.removals.val[tag] =
                                   [i \in 1..(Len(base) - Len(target)) |->
                                       base[Len(target) + i]]
                       ELSE ~Has(differences.removals, tag)

C8_Witness ==
    /\ pc = "compared"
    /\ call = "forward"
    /\ Len(Records(blank_features, "A")) = 2
    /\ Len(Records(component_features, "A")) = 1
    /\ differences.removals.val["A"] = <<blank_features.val["A"][2]>>
    /\ Has(blank_features, "B")
    /\ ~Has(component_features, "B")
    /\ differences.removals.val["B"] = blank_features.val["B"]

\* C9: for records paired by position, a field of the same name whose
\* baseline and target values are of different variants is among the
\* changed fields of the pair.
C9_CrossTypeChange ==
    pc = "compared" =>
        \A tag \in Tags :
            \A i \in 1..Min(Len(Records(Baseline, tag)), Len(Records(Target, tag))) :
                LET base   == Baseline.val[tag][i]
                    target == Target.val[tag][i]
                IN  \A k \in DOMAIN base.val \cap DOMAIN target.val :
                        base.val[k].kind # target.val[k].kind =>
                            \E j \in 1..Len(Records(differences.modifications, tag)) :
                                LET e == differences.modifications.val[tag][j]
                                IN  /\ e.name = Get(target, "Name", Unknown)
                                    /\ Has(e.fields, k)
                                    /\ e.fields.val[k] =
                                           [old |-> base.val[k], new |-> target.val[k]]

C9_Witness ==
    /\ pc = "compared"
    /\ call = "forward"
    /\ Has(blank_features, "A") /\ Has(component_features, "A")
    /\ Has(blank_features.val["A"][1], "D")
    /\ Has(component_features.val["A"][1], "D")
    /\ blank_features.val["A"][1].val["D"] = Text(<<"a">>)
    /\ component_features.val["A"][1].val["D"].kind = "Number"
    /\ differences.modifications.val["A"][1].fields.val["D"].old = Text(<<"a">>)

\* what a document with an attribute node without text leads to: main()
\* ends with the exception named, the collection of the document is never
\* bound and nothing is compared
FailsWith(name) ==
    /\ (MissingText(blank_root) /\ pc # "start") =>
           /\ pc = "crashed"
           /\ exc = name
           /\ "blank_features" \notin bound
    /\ (~MissingText(blank_root) /\ MissingText(component_root)
                                 /\ pc \notin {"start", "blank"}) =>
           /\ pc = "crashed"
           /\ exc = name
           /\ "component_features" \notin bound

\* C10 as claimed: an attribute node without text makes extract_features
\* fail with a MalformedInputError; the extraction of the document is
\* aborted and no partial collection reaches the caller.
C10_MalformedInputError == FailsWith("MalformedInputError")

\* C10 as the code has it: an attribute node without text makes
\* extract_features fail with the AttributeError of None.strip(); the
\* extraction of the document is aborted and no partial collection reaches
\* the caller.
C10_MissingTextAborts == FailsWith("AttributeError")

C10_Witness ==
    /\ pc = "crashed"
    /\ exc = "AttributeError"
    /\ Len(blank_root[1].children) = 2
    /\ blank_root[1].children[1].text # None
    /\ blank_root[1].children[2].text = None
    /\ bound = {}

\* the children of the one operation of the machine document
CamChildren == cam_root[1].children

\* what parse_cam_xml stored for a child of that operation
CamStored(node) == cam_operations.val[cam_root[1].tag][1].val[node.tag]

\* what extract_features stores for an attribute node with that tag and text
CadStored(node) ==
    extract_features(<<Feature("A", <<Attr(node.tag, node.text)>>)>>)
        .val.val["A"][1].val[node.tag]

\* a tool tag is stored as a sub-record of the trimmed texts of its
\* children, a numeric name as the float of its text
NamedStored(node) ==
    IF node.tag \in TOOLSTYPELIST
    THEN /\ DOMAIN CamStored(node).val = {node.children[i].tag :
                                            i \in 1..Len(node.children)}
         /\ \A i \in 1..Len(node.children) :
                CamStored(node).val[node.children[i].tag] =
                    Text(strip(node.children[i].text))
    ELSE CamStored(node) = Number(float(strip(node.text)).val)

Named(node) == node.tag \in TOOLSTYPELIST \cup NumericNames

\* C11 as claimed: parse_cam_xml stores tools as sub-records and the
\* numeric names as numbers, and for every other leaf attribute it stores
\* the typed value extract_features stores for the same text.
C11_SameClassification ==
    pc = "cam" =>
        \A j \in 1..Len(CamChildren) :
            IF Named(CamChildren[j]) THEN NamedStored(CamChildren[j])
            ELSE CamStored(CamChildren[j]) = CadStored(CamChildren[j])

\* C11 as the code has it: parse_cam_xml stores tools as sub-records and
\* the numeric names as numbers, and every other leaf attribute as its
\* trimmed text, unclassified; that is the value extract_features stores
\* for the same text exactly when the text is neither a number nor three
\* numbers.
C11_CamKeepsText ==
    pc = "cam" =>
        \A j \in 1..Len(CamChildren) :
            IF Named(CamChildren[j]) THEN NamedStored(CamChildren[j])
            ELSE /\ CamStored(CamChildren[j]) = Text(strip(CamChildren[j].text))
                 /\ CamStored(CamChildren[j]) = CadStored(CamChildren[j])
                        <=> /\ float(strip(CamChildren[j].text)).exc # ""
                            /\ ~ThreeNumbers(strip(CamChildren[j].text))

C11_Witness ==
    /\ pc = "cam"
    /\ cam_root = blank_root
    /\ CamChildren[1].text = <<"1", " ", "0", " ", "1">>
    /\ CamStored(CamChildren[1]) = Text(<<"1", " ", "0", " ", "1">>)
    /\ TheValue(blank_features).kind = "Point"

\* the index pairs of a tag whose target record has every key present in
\* the baseline record with an equal value
QuietPairs(tag) ==
    {i \in 1..Min(Len(Records(Baseline, tag)), Len(Records(Target, tag))) :
        ChangedKeys(Baseline.val[tag][i], Target.val[tag][i]) = {}}

\* C12: for positionally paired records, a key present only in the baseline
\* record is in no modification entry's changed fields (every entry's fields
\* are keys of a paired target record), and a pair whose target keys are
\* all present in the baseline record with equal values has no modification
\* entry, whatever extra keys the baseline record has.
C12_DroppedNotReported ==
    pc = "compared" =>
        \A tag \in Tags :
            (Has(Baseline, tag) /\ Has(Target, tag)) =>
                LET base    == Baseline.val[tag]
                    target  == Target.val[tag]
                    pairs   == 1..Min(Len(base), Len(target))
                    entries == Records(differences.modifications, tag)
                IN  /\ \A e \in 1..Len(entries) :
                           \E i \in pairs :
                               DOMAIN entries[e].fields.val \subseteq DOMAIN target[i].val
                    /\ Len(entries) <= Cardinality(pairs \ QuietPairs(tag))

\* the strictly increasing maps of 1..m into 1..n
Increasing(m, n) ==
    {f \in [1..m -> 1..n] : \A i, j \in 1..m : i < j => f[i] < f[j]}

\* the records are records of the list, in the order they have there
InListOrder(records, list) ==
    \E f \in Increasing(Len(records), Len(list)) :
        \A i \in 1..Len(records) : records[i] = list[f[i]]

\* the modification entries are entries of pairs of the two lists, in the
\* order of the pairs
InPairOrder(entries, base, target) ==
    \E f \in Increasing(Len(entries), Min(Len(base), Len(target))) :
        \A i \in 1..Len(entries) :
            /\ entries[i].name = Get(target[f[i]], "Name", Unknown)
            /\ DOMAIN entries[i].fields.val \subseteq DOMAIN target[f[i]].val
            /\ \A k \in DOMAIN entries[i].fields.val :
                   /\ entries[i].fields.val[k].new = target[f[i]].val[k]
                   /\ entries[i].fields.val[k].old = Get(base[f[i]], k, NA)

\* the keys of the part are keys of the collection, in the order they have
\* there
InKeyOrder(part, coll) ==
    part.keys = SelectSeq(coll.keys, LAMBDA tag : Has(part, tag))

\* C13: the keys of additions and of modifications are in the insertion
\* order of the target's tags, the keys of removals in that of the
\* baseline's tags, and under each tag the added and removed records and
\* the modification entries keep the order of the input record lists.
C13_ReportOrdering ==
    pc = "compared" =>
        /\ InKeyOrder(differences.additions, Target)
        /\ InKeyOrder(differences.modifications, Target)
        /\ InKeyOrder(differences.removals, Baseline)
        /\ \A tag \in Tags :
               /\ InListOrder(Records(differences.additions, tag), Records(Target, tag))
               /\ InListOrder(Records(differences.removals, tag), Records(Baseline, tag))
               /\ InPairOrder(Records(differences.modifications, tag),
                              Records(Baseline, tag), Records(Target, tag))

C13_Witness ==
    /\ pc = "compared"
    /\ call = "forward"
    /\ blank_features.keys = <<"B", "A">>
    /\ Len(blank_features.val["A"]) = 2
    /\ blank_features.val["A"][1] # blank_features.val["A"][2]
    /\ differences.removals.keys = <<"B", "A">>
    /\ differences.removals.val["A"] = blank_features.val["A"]

\* the records of the list after the first n
After(list, n) == SubSeq(list, n + 1, Len(list))

\* every record in additions is the target's record at its place, and every
\* record in removals the baseline's
ReportedAsGiven ==
    \A tag \in Tags :
        /\ Has(differences.additions, tag) =>
               differences.additions.val[tag] =
                   After(Target.val[tag], Len(Records(Baseline, tag)))
        /\ Has(differences.removals, tag) =>
               differences.removals.val[tag] =
                   After(Baseline.val[tag], Len(Records(Target, tag)))

\* C14: a call of compare_features leaves the baseline and the target
\* collection as they were, tags, record lists and record contents, and
\* every record it places in additions or removals is equal to the input
\* record at its place.
C14_ComparePure ==
    [][pc' = "compared" =>
          /\ blank_features' = blank_features
          /\ component_features' = component_features
          /\ ReportedAsGiven']_vars

C14_Witness ==
    /\ pc = "compared"
    /\ call = "forward"
    /\ blank_features.keys = <<"A", "B">>
    /\ component_features.keys = <<"A">>
    /\ Records(differences.removals, "B") = blank_features.val["B"]
    /\ Len(Records(differences.additions, "A")) = 2
    /\ Records(differences.additions, "A") = After(component_features.val["A"], 1)

Max(a, b) == IF a > b THEN a ELSE b

\* C15: no tag is a key of both additions and removals; a key of
\* modifications is a tag of both collections; and for a tag of both
\* collections the modification entries are at most as many as the shorter
\* list has records, the added records as many as the target list is longer
\* than the baseline list, the removed records as many as the baseline list
\* is longer than the target list.
C15_ReportShape ==
    pc = "compared" =>
        \A tag \in Tags :
            /\ ~(Has(differences.additions, tag) /\ Has(differences.removals, tag))
            /\ Has(differences.modifications, tag) =>
                   Has(Baseline, tag) /\ Has(Target, tag)
            /\ (Has(Baseline, tag) /\ Has(Target, tag)) =>
                   /\ Len(Records(differences.modifications, tag)) <=
                          Min(Len(Baseline.val[tag]), Len(Target.val[tag]))
                   /\ Len(Records(differences.additions, tag)) =
                          Max(0, Len(Target.val[tag]) - Len(Baseline.val[tag]))
                   /\ Len(Records(differences.removals, tag)) =
                          Max(0, Len(Baseline.val[tag]) - Len(Target.val[tag]))

C15_Witness ==
    /\ pc = "compared"
    /\ call = "forward"
    /\ Len(Records(blank_features, "A")) = 3
    /\ Len(Records(component_features, "A")) = 1
    /\ Len(Records(differences.modifications, "A")) = 1
    /\ Len(Records(differences.removals, "A")) = 2
    /\ ~Has(differences.additions, "A")

====
